---- MODULE Spec2Model ----
(***************************************************************************)
(* A model of chat.py (Wandee AI Pro): a Streamlit chat front end that     *)
(* forwards messages to a local language model, keeps one JSON file per    *)
(* conversation in the chat_sessions directory and names each new          *)
(* conversation after a topic the model generates.                         *)
(*                                                                         *)
(* A Python str is a sequence of characters, each a one-character string;  *)
(* "U+0E01" stands for the single non-ASCII character THAI KO KAI.  None   *)
(* is the empty tuple and a present optional value x is <<x>>.  A dict     *)
(* with string keys is a function from keys (character sequences) to       *)
(* values, a list is a sequence.                                           *)
(***************************************************************************)
EXTENDS Integers, Sequences, FiniteSets, TLC

VARIABLES
    sessions_dir,   \* the files of CHAT_SESSIONS_DIR: name -> [json, mtime]
    clock,          \* the file system's clock, advanced by every write
    session_state,  \* st.session_state of every UI session
    uploader,       \* the file held by each UI session's file_uploader widget
    model_calls,    \* the ollama.chat calls of the last script run:
                    \* [session, messages, response]
    call            \* the function call in progress in the pure-function specifications

vars == <<sessions_dir, clock, session_state, uploader, model_calls, call>>

None == <<>>
Some(x) == <<x>>

(***************************************************************************)
(* Bounds of the model.                                                    *)
(***************************************************************************)
MaxClock == 3         \* the clock's last value (it starts at 2)
MaxMessages == 4      \* messages of one in-memory sequence
MaxUploaderKey == 1   \* image uploads that are consumed in one behaviour
MaxFailedSends == 1   \* unanswered prompts in one in-memory sequence
MaxPatternLen == 3    \* length of the pattern a sanitizer input starts with
MaxRepeat == 49       \* repetitions of the character a sanitizer input ends with
MaxHistoryLen == 2    \* messages of a round-trip input
MaxCreated == 2       \* sessions created in one behaviour of the resolver

(***************************************************************************)
(* Characters and the classes of Python's re module (\w, \s).              *)
(***************************************************************************)
LowerLetters ==
    {"a","b","c","d","e","f","g","h","i","j","k","l","m",
     "n","o","p","q","r","s","t","u","v","w","x","y","z"}
UpperLetters ==
    {"A","B","C","D","E","F","G","H","I","J","K","L","M",
     "N","O","P","Q","R","S","T","U","V","W","X","Y","Z"}
NonAsciiLetters == {"U+0E01"}
Letters == LowerLetters \cup UpperLetters \cup NonAsciiLetters
Digits == {"0","1","2","3","4","5","6","7","8","9"}
DigitChars == <<"0","1","2","3","4","5","6","7","8","9">>

\* \w : alphanumeric or underscore
IsWordChar(c) == c \in Letters \cup Digits \cup {"_"}
\* \s and str.isspace
IsSpaceChar(c) == c \in {" ", "\t", "\n", "\r", "\f"}

RECURSIVE Repeat(_, _)
Repeat(s, k) == IF k <= 0 THEN <<>> ELSE s \o Repeat(s, k - 1)

Min(a, b) == IF a <= b THEN a ELSE b

EndsWith(s, p) == Len(p) <= Len(s) /\ SubSeq(s, Len(s) - Len(p) + 1, Len(s)) = p

\* str(i) for i >= 0
RECURSIVE str(_)
str(i) == IF i < 10 THEN <<DigitChars[i + 1]>>
          ELSE str(i \div 10) \o <<DigitChars[(i % 10) + 1]>>

(***************************************************************************)
(* sanitize_filename                                                       *)
(***************************************************************************)
FilenameMaxLen == 50
new_chat == <<"n","e","w","_","c","h","a","t">>

\* re.sub(r'[^\w\s-]', '', topic)
RemoveDisallowed(topic) ==
    SelectSeq(topic, LAMBDA c : IsWordChar(c) \/ IsSpaceChar(c) \/ c = "-")

RECURSIVE lstrip(_)
lstrip(s) == IF s # <<>> /\ IsSpaceChar(Head(s)) THEN lstrip(Tail(s)) ELSE s

RECURSIVE rstrip(_)
rstrip(s) == IF s # <<>> /\ IsSpaceChar(s[Len(s)])
             THEN rstrip(SubSeq(s, 1, Len(s) - 1)) ELSE s

strip(s) == rstrip(lstrip(s))

\* re.sub(r'\s+', '_', s)
RECURSIVE CollapseWhitespace(_)
CollapseWhitespace(s) ==
    IF s = <<>> THEN <<>>
    ELSE IF IsSpaceChar(Head(s)) THEN <<"_">> \o CollapseWhitespace(lstrip(Tail(s)))
    ELSE <<Head(s)>> \o CollapseWhitespace(Tail(s))

Truncate_unbounded(s) == s

\* sanitized_topic[:50]
Truncate(s) == SubSeq(s, 1, Min(Len(s), FilenameMaxLen))

sanitize_filename_no_fallback(topic) ==
    Truncate(CollapseWhitespace(strip(RemoveDisallowed(topic))))

sanitize_filename(topic) ==
    LET sanitized_topic == CollapseWhitespace(strip(RemoveDisallowed(topic)))
    IN  IF sanitized_topic # <<>> THEN Truncate(sanitized_topic) ELSE new_chat

(***************************************************************************)
(* json.dump(history, f, indent=4): the text written to a session file.    *)
(* The encoder is written for the shapes a history holds: a list of dicts  *)
(* whose values are strings or lists of strings.                           *)
(***************************************************************************)
JsonIndent == 4

K_role == <<"r","o","l","e">>
K_content == <<"c","o","n","t","e","n","t">>
K_images == <<"i","m","a","g","e","s">>
S_user == <<"u","s","e","r">>
S_assistant == <<"a","s","s","i","s","t","a","n","t">>

\* the \uXXXX escape of each non-ASCII character of the model
CodePointHex == [c \in NonAsciiLetters |-> <<"0","e","0","1">>]

EscapeChar_quote_unescaped(c) ==
    IF c = "\\" THEN <<"\\", "\\">>
    ELSE IF c = "\n" THEN <<"\\", "n">>
    ELSE IF c = "\r" THEN <<"\\", "r">>
    ELSE IF c = "\t" THEN <<"\\", "t">>
    ELSE IF c = "\f" THEN <<"\\", "f">>
    ELSE IF c \in DOMAIN CodePointHex THEN <<"\\", "u">> \o CodePointHex[c]
    ELSE <<c>>

\* json.encoder.py_encode_basestring_ascii, one character (ensure_ascii=True)
EscapeChar(c) ==
    IF c = "\"" THEN <<"\\", "\"">>
    ELSE IF c = "\\" THEN <<"\\", "\\">>
    ELSE IF c = "\n" THEN <<"\\", "n">>
    ELSE IF c = "\r" THEN <<"\\", "r">>
    ELSE IF c = "\t" THEN <<"\\", "t">>
    ELSE IF c = "\f" THEN <<"\\", "f">>
    ELSE IF c \in DOMAIN CodePointHex THEN <<"\\", "u">> \o CodePointHex[c]
    ELSE <<c>>

RECURSIVE EscapeChars(_)
EscapeChars(s) == IF s = <<>> THEN <<>> ELSE EscapeChar(Head(s)) \o EscapeChars(Tail(s))

EncodeString(s) == <<"\"">> \o EscapeChars(s) \o <<"\"">>

NewlineIndent(level) == <<"\n">> \o Repeat(<<" ">>, JsonIndent * level)

\* the texts of `parts` joined by `sep`
RECURSIVE Join(_, _)
Join(parts, sep) ==
    IF parts = <<>> THEN <<>>
    ELSE IF Len(parts) = 1 THEN parts[1]
    ELSE parts[1] \o sep \o Join(Tail(parts), sep)

\* a list whose items are already encoded, at nesting depth `level`
EncodeList(items, level) ==
    IF items = <<>> THEN <<"[", "]">>
    ELSE <<"[">> \o NewlineIndent(level + 1)
         \o Join(items, <<",">> \o NewlineIndent(level + 1))
         \o NewlineIndent(level) \o <<"]">>

\* a dict whose members <<key, encoded value>> are in insertion order
EncodeDict(members, level) ==
    IF members = <<>> THEN <<"{", "}">>
    ELSE <<"{">> \o NewlineIndent(level + 1)
         \o Join([i \in 1..Len(members) |->
                    EncodeString(members[i][1]) \o <<":", " ">> \o members[i][2]],
                 <<",">> \o NewlineIndent(level + 1))
         \o NewlineIndent(level) \o <<"}">>

\* a message dict: its keys in the order the program inserts them
EncodeMessage(m, level) ==
    EncodeDict(
        <<  <<K_role, EncodeString(m[K_role])>>,
            <<K_content, EncodeString(m[K_content])>>  >>
        \o (IF K_images \in DOMAIN m
            THEN << <<K_images,
                      EncodeList([i \in 1..Len(m[K_images]) |->
                                    EncodeString(m[K_images][i])], level + 1)>> >>
            ELSE <<>>),
        level)

json_dump(history) ==
    EncodeList([i \in 1..Len(history) |-> EncodeMessage(history[i], 1)], 0)

(***************************************************************************)
(* json.load: a parser of arrays, objects and strings.  A result is        *)
(* [ok, v, i]: whether the text parsed, the value, the next index.         *)
(***************************************************************************)
ParseFail == [ok |-> FALSE, v |-> <<>>, i |-> 0]

IsJsonWhitespace(c) == c \in {" ", "\t", "\n", "\r"}

RECURSIVE SkipWhitespace(_, _)
SkipWhitespace(text, i) ==
    IF i <= Len(text) /\ IsJsonWhitespace(text[i]) THEN SkipWhitespace(text, i + 1) ELSE i

\* the character an escape letter stands for
Unescape(c) ==
    IF c = "n" THEN "\n" ELSE IF c = "r" THEN "\r" ELSE IF c = "t" THEN "\t"
    ELSE IF c = "f" THEN "\f" ELSE c

\* json.decoder.py_scanstring from the character after the opening quote
RECURSIVE ScanString(_, _, _)
ScanString(text, i, acc) ==
    IF i > Len(text) THEN ParseFail
    ELSE IF text[i] = "\"" THEN [ok |-> TRUE, v |-> acc, i |-> i + 1]
    ELSE IF text[i] \in {"\n", "\r", "\t", "\f"} THEN ParseFail
    ELSE IF text[i] # "\\" THEN ScanString(text, i + 1, Append(acc, text[i]))
    ELSE IF i + 1 > Len(text) THEN ParseFail
    ELSE IF text[i + 1] \in {"\"", "\\", "/", "n", "r", "t", "f"}
         THEN ScanString(text, i + 2, Append(acc, Unescape(text[i + 1])))
    ELSE IF text[i + 1] = "u" /\ i + 5 <= Len(text)
            /\ \E c \in DOMAIN CodePointHex : CodePointHex[c] = SubSeq(text, i + 2, i + 5)
         THEN ScanString(text, i + 6,
                Append(acc, CHOOSE c \in DOMAIN CodePointHex :
                                CodePointHex[c] = SubSeq(text, i + 2, i + 5)))
    ELSE ParseFail

RECURSIVE ParseValue(_, _)
RECURSIVE ParseElements(_, _, _)
RECURSIVE ParseMembers(_, _, _)

ParseValue(text, i0) ==
    LET i == SkipWhitespace(text, i0) IN
    IF i > Len(text) THEN ParseFail
    ELSE IF text[i] = "\"" THEN ScanString(text, i + 1, <<>>)
    ELSE IF text[i] = "["
         THEN LET j == SkipWhitespace(text, i + 1) IN
              IF j <= Len(text) /\ text[j] = "]"
              THEN [ok |-> TRUE, v |-> <<>>, i |-> j + 1]
              ELSE ParseElements(text, j, <<>>)
    ELSE IF text[i] = "{"
         THEN LET j == SkipWhitespace(text, i + 1) IN
              IF j <= Len(text) /\ text[j] = "}"
              THEN [ok |-> TRUE, v |-> <<>>, i |-> j + 1]
              ELSE ParseMembers(text, j, <<>>)
    ELSE ParseFail

\* the elements of an array from index i, up to its closing bracket
ParseElements(text, i, acc) ==
    LET r == ParseValue(text, i)
        j == SkipWhitespace(text, r.i)
    IN  IF ~r.ok \/ j > Len(text) THEN ParseFail
        ELSE IF text[j] = "," THEN ParseElements(text, j + 1, Append(acc, r.v))
        ELSE IF text[j] = "]" THEN [ok |-> TRUE, v |-> Append(acc, r.v), i |-> j + 1]
        ELSE ParseFail

\* the members of an object from index i, up to its closing brace
ParseMembers(text, i, acc) ==
    LET k == SkipWhitespace(text, i)
        key == IF k <= Len(text) /\ text[k] = "\""
               THEN ScanString(text, k + 1, <<>>) ELSE ParseFail
        c == SkipWhitespace(text, key.i)
        val == IF key.ok /\ c <= Len(text) /\ text[c] = ":"
               THEN ParseValue(text, c + 1) ELSE ParseFail
        j == SkipWhitespace(text, val.i)
        acc2 == (key.v :> val.v) @@ acc
    IN  IF ~val.ok \/ j > Len(text) THEN ParseFail
        ELSE IF text[j] = "," THEN ParseMembers(text, j + 1, acc2)
        ELSE IF text[j] = "}" THEN [ok |-> TRUE, v |-> acc2, i |-> j + 1]
        ELSE ParseFail

\* [ok |-> TRUE, v |-> value], or [ok |-> FALSE] for a JSONDecodeError
json_load(text) ==
    LET r == ParseValue(text, 1) IN
    IF r.ok /\ SkipWhitespace(text, r.i) > Len(text)
    THEN [ok |-> TRUE, v |-> r.v] ELSE [ok |-> FALSE]

(***************************************************************************)
(* base64.b64encode(img_data).decode('utf-8')                              *)
(***************************************************************************)
B64Chars ==
    <<"A","B","C","D","E","F","G","H","I","J","K","L","M","N","O","P",
      "Q","R","S","T","U","V","W","X","Y","Z","a","b","c","d","e","f",
      "g","h","i","j","k","l","m","n","o","p","q","r","s","t","u","v",
      "w","x","y","z","0","1","2","3","4","5","6","7","8","9","+","/">>

B64(n) == B64Chars[n + 1]

RECURSIVE b64encode(_)
b64encode(b) ==
    IF Len(b) = 0 THEN <<>>
    ELSE IF Len(b) = 1
         THEN <<B64(b[1] \div 4), B64((b[1] % 4) * 16), "=", "=">>
    ELSE IF Len(b) = 2
         THEN <<B64(b[1] \div 4), B64((b[1] % 4) * 16 + b[2] \div 16),
                B64((b[2] % 16) * 4), "=">>
    ELSE <<B64(b[1] \div 4), B64((b[1] % 4) * 16 + b[2] \div 16),
           B64((b[2] % 16) * 4 + b[3] \div 64), B64(b[3] % 64)>>
         \o b64encode(SubSeq(b, 4, Len(b)))

(***************************************************************************)
(* The session files: get_chat_sessions, load_chat_history,                *)
(* save_chat_history, delete_chat_history.  `dir` maps each file name of   *)
(* CHAT_SESSIONS_DIR to [json, mtime]: a file's text is kept as what       *)
(* json.load reads from it, [ok |-> TRUE, v |-> value] or [ok |-> FALSE].  *)
(***************************************************************************)
dot_json == <<".","j","s","o","n">>
EmptyDir == [f \in {} |-> [json |-> [ok |-> FALSE], mtime |-> 0]]

\* os.path.exists(os.path.join(CHAT_SESSIONS_DIR, name))
exists(dir, name) == name \in DOMAIN dir

\* sorted(names, key=mtime, reverse=True); every write has its own mtime
RECURSIVE SortByMtime(_, _)
SortByMtime(dir, names) ==
    IF names = {} THEN <<>>
    ELSE LET f == CHOOSE x \in names : \A y \in names : dir[x].mtime >= dir[y].mtime
         IN  <<f>> \o SortByMtime(dir, names \ {f})

RECURSIVE SortByMtimeAscending(_, _)
SortByMtimeAscending(dir, names) ==
    IF names = {} THEN <<>>
    ELSE LET f == CHOOSE x \in names : \A y \in names : dir[x].mtime <= dir[y].mtime
         IN  <<f>> \o SortByMtimeAscending(dir, names \ {f})

get_chat_sessions_oldest_first(dir) ==
    SortByMtimeAscending(dir, {f \in DOMAIN dir : EndsWith(f, dot_json)})

get_chat_sessions(dir) ==
    SortByMtime(dir, {f \in DOMAIN dir : EndsWith(f, dot_json)})

\* [ok |-> TRUE, v |-> history], or [ok |-> FALSE] when json.load raises
load_chat_history(dir, chat_id) ==
    IF exists(dir, chat_id) THEN dir[chat_id].json
    ELSE [ok |-> TRUE, v |-> <<>>]

\* the directory after json.dump has written the file, at time `now`
save_chat_history(dir, chat_id, history, now) ==
    (chat_id :> [json |-> json_load(json_dump(history)), mtime |-> now]) @@ dir

delete_chat_history(dir, chat_id) ==
    IF exists(dir, chat_id) THEN [f \in DOMAIN dir \ {chat_id} |-> dir[f]] ELSE dir

(***************************************************************************)
(* generate_chat_topic and the choice of a new session's identifier.       *)
(***************************************************************************)
S_Chat == <<"C","h","a","t">>

\* the instruction's text, as one symbol
TopicInstruction == <<"<what is a short, descriptive topic for this chat?>">>

CopyAndInstruct_aliased(messages) ==
    LET history == Append(messages, (K_role :> S_user) @@ (K_content :> TopicInstruction))
    IN  [messages |-> history, history |-> history]

\* history = messages.copy(); history.append({...}): the caller's list and the
\* list sent to the model
CopyAndInstruct(messages) ==
    [messages |-> messages,
     history |-> Append(messages, (K_role :> S_user) @@ (K_content :> TopicInstruction))]

\* the history sent to the model: a copy of the messages plus the instruction
topic_request(messages) == CopyAndInstruct(messages).history

generate_chat_topic_fallback_empty(messages, response) ==
    IF response # None THEN response[1] ELSE <<>>

\* response: Some(content) when ollama.chat answers, None when it raises
\* (so is every response of model_calls)
generate_chat_topic(messages, response) ==
    IF response # None THEN response[1] ELSE S_Chat

\* the while loop of the uniqueness check, from suffix i
RECURSIVE NextFreeId(_, _, _)
NextFreeId(dir, sanitized_topic, i) ==
    LET new_chat_id == sanitized_topic \o <<"_">> \o str(i) \o dot_json
    IN  IF exists(dir, new_chat_id) THEN NextFreeId(dir, sanitized_topic, i + 1)
        ELSE new_chat_id

UniqueChatId_unchecked(dir, sanitized_topic) == sanitized_topic \o dot_json

UniqueChatId_from_two(dir, sanitized_topic) ==
    IF exists(dir, sanitized_topic \o dot_json)
    THEN NextFreeId(dir, sanitized_topic, 2)
    ELSE sanitized_topic \o dot_json

UniqueChatId(dir, sanitized_topic) ==
    IF exists(dir, sanitized_topic \o dot_json)
    THEN NextFreeId(dir, sanitized_topic, 1)
    ELSE sanitized_topic \o dot_json

ChatIdForSave_always_new(active_chat_id, dir, topic) ==
    UniqueChatId(dir, sanitize_filename(topic))

\* the identifier the history is saved under
ChatIdForSave(active_chat_id, dir, topic) ==
    IF active_chat_id = None THEN UniqueChatId(dir, sanitize_filename(topic))
    ELSE active_chat_id[1]

(***************************************************************************)
(* One UI session: st.session_state and the file_uploader widget, as the   *)
(* pair w = [ss, up].                                                      *)
(***************************************************************************)
MODEL_NAME == "gemma3"

\* setup_app (response_time, which is only displayed, is left out)
InitialSessionState ==
    [messages |-> <<>>, active_chat_id |-> None,
     ollama_model |-> MODEL_NAME, staged_image |-> None, uploader_key |-> 0]

\* if staged_image: staged_image = None; uploader_key += 1
\* (a file_uploader with a new key is a new, empty widget)
ClearStagedImage(w) ==
    IF w.ss.staged_image # None
    THEN [ss |-> [w.ss EXCEPT !.staged_image = None, !.uploader_key = @ + 1],
          up |-> None]
    ELSE w

\* the file_uploader of every script run that reaches it
FileUploaderStep(w) ==
    IF w.up # None
    THEN [w EXCEPT !.ss.staged_image =
            Some([b64 |-> b64encode(w.up[1]), bytes |-> w.up[1]])]
    ELSE w

\* the New Chat button
new_chat_clicked(w) ==
    ClearStagedImage([w EXCEPT !.ss.messages = <<>>, !.ss.active_chat_id = None])

select_clicked_keep_messages(w, dir, session_id) ==
    ClearStagedImage([w EXCEPT !.ss.active_chat_id = Some(session_id)])

\* a session's select button; json.load raising ends the script run
select_clicked(w, dir, session_id) ==
    LET loaded == load_chat_history(dir, session_id)
        w1 == [w EXCEPT !.ss.active_chat_id = Some(session_id)]
    IN  IF loaded.ok THEN ClearStagedImage([w1 EXCEPT !.ss.messages = loaded.v])
        ELSE w1

delete_clicked_keep_active(w, session_id) == w

delete_clicked_reset_always(w, session_id) ==
    ClearStagedImage([w EXCEPT !.ss.active_chat_id = None, !.ss.messages = <<>>])

\* a session's delete button, after delete_chat_history
delete_clicked(w, session_id) ==
    IF w.ss.active_chat_id = Some(session_id)
    THEN ClearStagedImage([w EXCEPT !.ss.active_chat_id = None,
                                    !.ss.messages = <<>>])
    ELSE w

user_message_two_blobs(prompt, staged_image) ==
    IF staged_image # None
    THEN (K_role :> S_user) @@ (K_content :> prompt)
         @@ (K_images :> <<staged_image[1].b64, staged_image[1].b64>>)
    ELSE (K_role :> S_user) @@ (K_content :> prompt)

\* the user message of a prompt, with the staged image if there is one
user_message(prompt, staged_image) ==
    IF staged_image # None
    THEN (K_role :> S_user) @@ (K_content :> prompt)
         @@ (K_images :> <<staged_image[1].b64>>)
    ELSE (K_role :> S_user) @@ (K_content :> prompt)

assistant_message(assistant_response) ==
    (K_role :> S_assistant) @@ (K_content :> assistant_response)

AppendUserMessage_forgotten(messages, prompt, staged_image) == messages

\* st.session_state.messages.append(user_message)
AppendUserMessage(messages, prompt, staged_image) ==
    Append(messages, user_message(prompt, staged_image))

(***************************************************************************)
(* The inputs of the model.                                                *)
(***************************************************************************)
UISessions == {1}
Prompts == { <<"\"","\\">> }
Replies == { <<"U+0E01","\n">> }
Topics == { <<"a">>, <<"a"," ","1">> }
Images == { <<72, 105>> }

\* the sessions the sidebar shows a select and a delete button for
ListedSessions(dir) ==
    LET chat_sessions == get_chat_sessions(dir)
    IN  {chat_sessions[i] : i \in 1..Len(chat_sessions)}

\* the user messages of a sequence that no reply follows
Unanswered(messages) ==
    Cardinality({i \in 1..Len(messages) :
        /\ messages[i][K_role] = S_user
        /\ i = Len(messages) \/ messages[i + 1][K_role] = S_user})

Widgets(u) == [ss |-> session_state[u], up |-> uploader[u]]

Commit_shared(u, w) ==
    /\ session_state' = [v \in DOMAIN session_state |-> w.ss]
    /\ uploader' = [v \in DOMAIN uploader |-> w.up]

\* the script run of UI session u ends with w
Commit(u, w) ==
    /\ session_state' = [session_state EXCEPT ![u] = w.ss]
    /\ uploader' = [uploader EXCEPT ![u] = w.up]

Idle == [fn |-> "idle"]

\* The directory outlives the program: it is empty on the first run and holds
\* the files of earlier runs afterwards (here a.json, of a session on the topic
\* "a", and the more recent Chat.json, of a session whose topic call failed).
EarlierHistory(prompt) ==
    <<user_message(prompt, None), assistant_message(<<"o","k">>)>>

EarlierDir ==
    save_chat_history(
        save_chat_history(EmptyDir, <<"a">> \o dot_json, EarlierHistory(<<"h","i">>), 1),
        S_Chat \o dot_json, EarlierHistory(<<"h","o">>), 2)

InitialDirs == {EmptyDir, EarlierDir}

Init ==
    /\ sessions_dir \in InitialDirs
    /\ clock = 2
    /\ session_state = [u \in UISessions |-> InitialSessionState]
    /\ uploader = [u \in UISessions |-> None]
    /\ model_calls = <<>>
    /\ call = Idle

(***************************************************************************)
(* The interactions.  Each action is one script run with the rerun that    *)
(* st.rerun() starts, which reaches the file_uploader again.               *)
(***************************************************************************)
NewChat(u) ==
    /\ Commit(u, FileUploaderStep(new_chat_clicked(Widgets(u))))
    /\ model_calls' = <<>>
    /\ UNCHANGED <<sessions_dir, clock, call>>

SelectChat(u, session_id) ==
    /\ session_id \in ListedSessions(sessions_dir)
    /\ Commit(u, FileUploaderStep(select_clicked(Widgets(u), sessions_dir, session_id)))
    /\ model_calls' = <<>>
    /\ UNCHANGED <<sessions_dir, clock, call>>

DeleteChat(u, session_id) ==
    /\ session_id \in ListedSessions(sessions_dir)
    /\ sessions_dir' = delete_chat_history(sessions_dir, session_id)
    /\ Commit(u, FileUploaderStep(delete_clicked(Widgets(u), session_id)))
    /\ model_calls' = <<>>
    /\ UNCHANGED <<clock, call>>

\* the user puts a file in the uploader
UploadImage(u, img) ==
    /\ session_state[u].uploader_key < MaxUploaderKey
    /\ Commit(u, FileUploaderStep([ss |-> session_state[u], up |-> Some(img)]))
    /\ model_calls' = <<>>
    /\ UNCHANGED <<sessions_dir, clock, call>>

\* the user takes the file out of the uploader
RemoveImage(u) ==
    /\ uploader[u] # None
    /\ Commit(u, FileUploaderStep([ss |-> session_state[u], up |-> None]))
    /\ model_calls' = <<>>
    /\ UNCHANGED <<sessions_dir, clock, call>>

\* a prompt whose reply call raises: the script run ends at ollama.chat
SendFailed(u, prompt) ==
    LET w == FileUploaderStep(Widgets(u))
        messages1 == AppendUserMessage(w.ss.messages, prompt, w.ss.staged_image)
    IN  /\ Len(w.ss.messages) + 1 <= MaxMessages
        /\ Unanswered(w.ss.messages) < MaxFailedSends
        /\ Commit(u, [w EXCEPT !.ss.messages = messages1])
        /\ model_calls' = <<[session |-> u, messages |-> messages1, response |-> None]>>
        /\ UNCHANGED <<sessions_dir, clock, call>>

\* a prompt answered by the model; topic_response is the answer of the topic call
SendMessage(u, prompt, assistant_response, topic_response) ==
    LET w == FileUploaderStep(Widgets(u))
        image_was_sent == w.ss.staged_image # None
        messages1 == AppendUserMessage(w.ss.messages, prompt, w.ss.staged_image)
        messages2 == Append(messages1, assistant_message(assistant_response))
        is_new == w.ss.active_chat_id = None
        topic == generate_chat_topic(messages2, topic_response)
        chat_id == ChatIdForSave(w.ss.active_chat_id, sessions_dir, topic)
        messages3 == IF is_new THEN CopyAndInstruct(messages2).messages ELSE messages2
        w2 == [w EXCEPT !.ss.messages = messages3,
                        !.ss.active_chat_id = Some(chat_id)]
        w3 == IF image_was_sent THEN ClearStagedImage(w2) ELSE w2
    IN  /\ Len(w.ss.messages) + 2 <= MaxMessages
        /\ clock < MaxClock
        /\ is_new \/ topic_response = None
        /\ clock' = clock + 1
        /\ sessions_dir' = save_chat_history(sessions_dir, chat_id, messages3, clock + 1)
        /\ Commit(u, FileUploaderStep(w3))
        /\ model_calls' =
              <<[session |-> u, messages |-> messages1,
                 response |-> Some(assistant_response)]>>
              \o (IF is_new
                  THEN <<[session |-> u, messages |-> topic_request(messages2),
                          response |-> topic_response]>>
                  ELSE <<>>)
        /\ UNCHANGED call

Next ==
    \E u \in DOMAIN session_state :
        \/ NewChat(u)
        \/ \E session_id \in DOMAIN sessions_dir : SelectChat(u, session_id)
        \/ \E session_id \in DOMAIN sessions_dir : DeleteChat(u, session_id)
        \/ \E img \in Images : UploadImage(u, img)
        \/ RemoveImage(u)
        \/ \E prompt \in Prompts : SendFailed(u, prompt)
        \/ \E prompt \in Prompts, assistant_response \in Replies,
              topic_response \in {None} \cup {Some(t) : t \in Topics} :
                SendMessage(u, prompt, assistant_response, topic_response)

Spec == Init /\ [][Next]_vars

(***************************************************************************)
(* Two browser sessions on the same server process: each has its own       *)
(* st.session_state and widgets, and both work on CHAT_SESSIONS_DIR.       *)
(***************************************************************************)
TwoUISessions == {1, 2}

InitTwoSessions ==
    /\ sessions_dir = EarlierDir
    /\ clock = 2
    /\ session_state = [u \in TwoUISessions |-> InitialSessionState]
    /\ uploader = [u \in TwoUISessions |-> None]
    /\ model_calls = <<>>
    /\ call = Idle

\* the interactions of Next that reach the directory or the messages
NextTwoSessions ==
    \E u \in DOMAIN session_state :
        \/ NewChat(u)
        \/ \E session_id \in DOMAIN sessions_dir : SelectChat(u, session_id)
        \/ \E session_id \in DOMAIN sessions_dir : DeleteChat(u, session_id)
        \/ \E prompt \in Prompts : SendFailed(u, prompt)
        \/ \E prompt \in Prompts, assistant_response \in Replies,
              topic_response \in {None, Some(<<"a">>)} :
                SendMessage(u, prompt, assistant_response, topic_response)

SpecTwoSessions == InitTwoSessions /\ [][NextTwoSessions]_vars

(***************************************************************************)
(* sanitize_filename on its own: the topics are the patterns over a small  *)
(* alphabet, alone or followed by a run of one character that takes them   *)
(* to the 50 characters kept and beyond.                                   *)
(***************************************************************************)
TopicAlphabet == {"a", "7", "U+0E01", "_", "-", " ", "\t", "."}
TopicPatterns == UNION {[1..n -> TopicAlphabet] : n \in 0..MaxPatternLen}
TopicInputs ==
    {p \o Repeat(<<c>>, k) :
        p \in TopicPatterns, c \in TopicAlphabet, k \in {0, MaxRepeat - 1, MaxRepeat}}

InitSanitize ==
    /\ sessions_dir = EmptyDir
    /\ clock = 2
    /\ session_state = [u \in UISessions |-> InitialSessionState]
    /\ uploader = [u \in UISessions |-> None]
    /\ model_calls = <<>>
    /\ call \in {[fn |-> "sanitize_filename", topic |-> t, result |-> None] :
                    t \in TopicInputs}

CallSanitize ==
    /\ call.fn = "sanitize_filename"
    /\ call.result = None
    /\ call' = [call EXCEPT !.result = Some(sanitize_filename(call.topic))]
    /\ UNCHANGED <<sessions_dir, clock, session_state, uploader, model_calls>>

SpecSanitize == InitSanitize /\ [][CallSanitize]_vars

(***************************************************************************)
(* save_chat_history followed by load_chat_history on its own: the         *)
(* histories are sequences of messages whose contents hold the characters  *)
(* the JSON encoder escapes.                                               *)
(***************************************************************************)
RoundTripContents ==
    { <<>>, <<"a", "\"">>, <<"\\", "n">>, <<"\n", "\t">>, <<"U+0E01", "/">>,
      <<"\\", "\"">> }

RoundTripMessages ==
    {user_message(c, None) : c \in RoundTripContents}
    \cup {user_message(c, Some([b64 |-> b64encode(img), bytes |-> img])) :
            c \in RoundTripContents, img \in Images}
    \cup {assistant_message(c) : c \in RoundTripContents}

RoundTripHistories == UNION {[1..n -> RoundTripMessages] : n \in 0..MaxHistoryLen}

InitRoundTrip ==
    /\ sessions_dir \in InitialDirs
    /\ clock = 2
    /\ session_state = [u \in UISessions |-> InitialSessionState]
    /\ uploader = [u \in UISessions |-> None]
    /\ model_calls = <<>>
    /\ call \in {[fn |-> "round_trip", chat_id |-> c, history |-> h,
                  pc |-> "start", loaded |-> None] :
                    c \in {<<"a">> \o dot_json, S_Chat \o dot_json},
                    h \in RoundTripHistories}

CallSave ==
    /\ call.fn = "round_trip"
    /\ call.pc = "start"
    /\ sessions_dir' = save_chat_history(sessions_dir, call.chat_id, call.history, clock + 1)
    /\ clock' = clock + 1
    /\ call' = [call EXCEPT !.pc = "saved"]
    /\ UNCHANGED <<session_state, uploader, model_calls>>

CallLoad ==
    /\ call.fn = "round_trip"
    /\ call.pc = "saved"
    /\ call' = [call EXCEPT !.pc = "loaded",
                            !.loaded = Some(load_chat_history(sessions_dir, call.chat_id))]
    /\ UNCHANGED <<sessions_dir, clock, session_state, uploader, model_calls>>

SpecRoundTrip == InitRoundTrip /\ [][CallSave \/ CallLoad]_vars

(***************************************************************************)
(* The choice of a new session's identifier on its own: the directory      *)
(* starts with any set of the names the loop can meet, and sessions are    *)
(* created (the first save of a new session) and deleted; call.created     *)
(* records each creation with the names that existed.                      *)
(***************************************************************************)
ResolverTopics == { <<"a">>, <<"a", " ", "1">> }

\* the first names the loop tries for these topics
ResolverNames ==
    {sanitize_filename(t) \o dot_json : t \in ResolverTopics}
    \cup {sanitize_filename(t) \o <<"_">> \o str(i) \o dot_json :
            t \in ResolverTopics, i \in {1, 2}}

ResolverDirs ==
    {[f \in names |-> [json |-> [ok |-> TRUE, v |-> EarlierHistory(<<"h","i">>)],
                       mtime |-> 1]] : names \in SUBSET ResolverNames}

InitResolver ==
    /\ sessions_dir \in ResolverDirs
    /\ clock = 2
    /\ session_state = [u \in UISessions |-> InitialSessionState]
    /\ uploader = [u \in UISessions |-> None]
    /\ model_calls = <<>>
    /\ call = [fn |-> "resolver", created |-> <<>>]

\* lines 218-230 for a new session whose topic call answered topic
CreateSession(topic) ==
    LET chat_id == ChatIdForSave(None, sessions_dir, generate_chat_topic(<<>>, Some(topic)))
    IN  /\ call.fn = "resolver"
        /\ Len(call.created) < MaxCreated
        /\ clock' = clock + 1
        /\ sessions_dir' = save_chat_history(sessions_dir, chat_id,
                                EarlierHistory(<<"h","o">>), clock + 1)
        /\ call' = [call EXCEPT !.created =
                        Append(@, [topic |-> topic, chat_id |-> chat_id,
                                   existing |-> DOMAIN sessions_dir])]
        /\ UNCHANGED <<session_state, uploader, model_calls>>

\* a session's delete button (delete_chat_history)
DeleteSession(session_id) ==
    /\ call.fn = "resolver"
    /\ session_id \in ListedSessions(sessions_dir)
    /\ sessions_dir' = delete_chat_history(sessions_dir, session_id)
    /\ UNCHANGED <<clock, session_state, uploader, model_calls, call>>

NextResolver ==
    \/ \E topic \in ResolverTopics : CreateSession(topic)
    \/ \E session_id \in DOMAIN sessions_dir : DeleteSession(session_id)

SpecResolver == InitResolver /\ [][NextResolver]_vars

(***************************************************************************)
(* The properties.  A step of Spec is a completed send exactly when it     *)
(* advances the clock; model_calls' then holds its calls, the reply call   *)
(* first.                                                                  *)
(***************************************************************************)
IsPrefix(s, t) == Len(s) <= Len(t) /\ SubSeq(t, 1, Len(s)) = s

\* the step is a send of UI session u that got its reply and saved
CompletedSend(u) == clock' # clock /\ model_calls'[1].session = u

\* the step is a send of UI session u whose reply call raised
FailedSend(u) ==
    /\ clock' = clock
    /\ model_calls' # <<>>
    /\ model_calls'[1].session = u
    /\ model_calls'[1].response = None

\* the files of dir other than chat_id are in dir2 with the same content and time
OthersUntouched(dir, dir2, chat_id) ==
    \A f \in DOMAIN dir \ {chat_id} : f \in DOMAIN dir2 /\ dir2[f] = dir[f]

\* C1: when the first exchange of a new session (active_chat_id is None)
\* completes, the identifier chosen names no file of the directory at that
\* moment, the history is saved under it, and every file that existed is still
\* there with its content.
C1_NewSessionNeverOverwrites ==
    [][\A u \in DOMAIN session_state :
        (CompletedSend(u) /\ session_state[u].active_chat_id = None)
        => /\ session_state'[u].active_chat_id # None
           /\ LET new_chat_id == session_state'[u].active_chat_id[1]
              IN  /\ new_chat_id \notin DOMAIN sessions_dir
                  /\ new_chat_id \in DOMAIN sessions_dir'
                  /\ sessions_dir'[new_chat_id].json
                        = [ok |-> TRUE, v |-> session_state'[u].messages]
                  /\ \A f \in DOMAIN sessions_dir :
                        f \in DOMAIN sessions_dir' /\ sessions_dir'[f] = sessions_dir[f]
      ]_vars

\* C1 witness: a new session was just saved on the topic "a" while a.json, of an
\* earlier session, was in the directory.
C1_Witness ==
    /\ Len(model_calls) = 2
    /\ model_calls[2].response = Some(<<"a">>)
    /\ session_state[model_calls[1].session].active_chat_id = Some(<<"a","_","1">> \o dot_json)
    /\ <<"a">> \o dot_json \in DOMAIN sessions_dir
    /\ sessions_dir[<<"a">> \o dot_json].json.v = EarlierHistory(<<"h","i">>)

\* C2: a session without identifier gets a new one (one that names no file)
\* only by a completed send; a send in a session that has an identifier keeps
\* it and saves to it; a failed send changes no identifier; and an identifier
\* changes only in a step that is no send (New Chat, select, delete).
C2_IdentifierAssignedOnce ==
    [][\A u \in DOMAIN session_state :
        LET old == session_state[u].active_chat_id
            new == session_state'[u].active_chat_id
        IN  /\ (old = None /\ new # None /\ new[1] \notin DOMAIN sessions_dir)
                => (CompletedSend(u) /\ Len(model_calls') = 2)
            /\ (CompletedSend(u) /\ old # None)
                => /\ new = old
                   /\ sessions_dir'[old[1]].mtime = clock'
                   /\ OthersUntouched(sessions_dir, sessions_dir', old[1])
                   /\ DOMAIN sessions_dir' = DOMAIN sessions_dir \cup {old[1]}
            /\ FailedSend(u) => new = old
            /\ (old # None /\ new # old) => (model_calls' = <<>> /\ clock' = clock)
      ]_vars

\* C2 witness: a send has just completed in a session that had its identifier,
\* and the four messages are in that session's file.
C2_Witness ==
    /\ Len(model_calls) = 1
    /\ model_calls[1].response # None
    /\ LET ss == session_state[model_calls[1].session]
       IN  /\ ss.active_chat_id # None
           /\ Len(ss.messages) = 4
           /\ sessions_dir[ss.active_chat_id[1]].mtime = clock

\* C3: for every topic, sanitize_filename returns at most 50 characters, each
\* of them a letter, a digit, a hyphen or an underscore.
C3_SanitizedShortAndClean ==
    (call.fn = "sanitize_filename" /\ call.result # None)
    => LET result == call.result[1]
       IN  /\ Len(result) <= 50
           /\ \A i \in 1..Len(result) :
                result[i] \in Letters \cup Digits \cup {"-", "_"}

\* C3 witness: a topic of more than 50 characters with punctuation and
\* whitespace in it was cut to exactly 50 characters.
C3_Witness ==
    /\ call.fn = "sanitize_filename"
    /\ call.result # None
    /\ Len(call.topic) > 50
    /\ \E i \in 1..Len(call.topic) : call.topic[i] = "."
    /\ \E i \in 1..Len(call.topic) : call.topic[i] = " "
    /\ Len(call.result[1]) = 50

\* C4: save_chat_history(c, h) followed by load_chat_history(c) returns h: the
\* same messages in the same order, each with the same role, content and images.
C4_RoundTrip ==
    (call.fn = "round_trip" /\ call.pc = "loaded")
    => call.loaded = Some([ok |-> TRUE, v |-> call.history])

\* C4 witness: a history of two messages was saved and loaded, the first a user
\* message with an image whose content is a backslash and a double quote.
C4_Witness ==
    /\ call.fn = "round_trip"
    /\ call.pc = "loaded"
    /\ Len(call.history) = 2
    /\ K_images \in DOMAIN call.history[1]
    /\ call.history[1][K_content] = <<"\\", "\"">>
    /\ call.history[2][K_role] = S_assistant

\* C5: when the topic call of a new session's first exchange raises, the
\* exchange still completes: the session's identifier is Chat.json, or
\* Chat_i.json when that name was taken, and the file of that name holds the
\* in-memory sequence, which ends with the user message and the reply.
C5_TopicFailureFallsBackToChat ==
    (Len(model_calls) = 2 /\ model_calls[2].response = None)
    => LET ss == session_state[model_calls[1].session]
           sent == model_calls[1].messages
           n == Len(ss.messages)
       IN  /\ ss.active_chat_id # None
           /\ \/ ss.active_chat_id[1] = <<"C","h","a","t">> \o dot_json
              \/ \E i \in 1..Cardinality(DOMAIN sessions_dir) :
                    ss.active_chat_id[1] = <<"C","h","a","t","_">> \o str(i) \o dot_json
           /\ ss.active_chat_id[1] \in DOMAIN sessions_dir
           /\ sessions_dir[ss.active_chat_id[1]].json = [ok |-> TRUE, v |-> ss.messages]
           /\ sessions_dir[ss.active_chat_id[1]].mtime = clock
           /\ n >= 2
           /\ ss.messages[n - 1] = sent[Len(sent)]
           /\ ss.messages[n - 1][K_role] = S_user
           /\ ss.messages[n] = assistant_message(model_calls[1].response[1])

\* C5 witness: the topic call of a first exchange raised while Chat.json, of an
\* earlier session, was in the directory, and the session was saved as Chat_1.json.
C5_Witness ==
    /\ Len(model_calls) = 2
    /\ model_calls[2].response = None
    /\ session_state[model_calls[1].session].active_chat_id
          = Some(<<"C","h","a","t","_","1">> \o dot_json)
    /\ Cardinality(DOMAIN sessions_dir) = 3

\* C6: a completed send extends the in-memory sequence by exactly two messages,
\* the user message and then the assistant's reply; the model was called with
\* the sequence up to and including the user message, the reply appended is the
\* one the model gave, and the file written holds the whole sequence.  A send
\* whose reply call raises had appended the user message before the call.
C6_SendOrder ==
    [][\A u \in DOMAIN session_state :
        LET before == session_state[u].messages
            after == session_state'[u].messages
            n == Len(before)
        IN  /\ CompletedSend(u)
                => /\ Len(after) = n + 2
                   /\ SubSeq(after, 1, n) = before
                   /\ after[n + 1][K_role] = S_user
                   /\ after[n + 2] = assistant_message(model_calls'[1].response[1])
                   /\ model_calls'[1].messages = SubSeq(after, 1, n + 1)
                   /\ sessions_dir'[session_state'[u].active_chat_id[1]].json
                        = [ok |-> TRUE, v |-> after]
            /\ FailedSend(u)
                => /\ Len(after) = n + 1
                   /\ SubSeq(after, 1, n) = before
                   /\ after[n + 1][K_role] = S_user
                   /\ model_calls'[1].messages = after
                   /\ sessions_dir' = sessions_dir
      ]_vars

\* C6 witness: a send with an image completed after one whose reply call had
\* raised, so the sequence holds two user messages and then the reply.
C6_Witness ==
    /\ model_calls # <<>>
    /\ model_calls[1].response # None
    /\ LET messages == session_state[model_calls[1].session].messages
       IN  /\ Len(messages) = 3
           /\ messages[1][K_role] = S_user
           /\ K_images \in DOMAIN messages[2]
           /\ messages[3][K_role] = S_assistant

\* C7: a step never changes, removes or reorders what a file holds: a file that
\* is there before and after the step holds afterwards a sequence of which its
\* previous content is a prefix, and a completed send in an identified session
\* writes the previous content followed by new messages.
C7_AppendOnly ==
    [][/\ \A f \in DOMAIN sessions_dir \cap DOMAIN sessions_dir' :
            IsPrefix(sessions_dir[f].json.v, sessions_dir'[f].json.v)
       /\ \A u \in DOMAIN session_state :
            (CompletedSend(u) /\ session_state[u].active_chat_id # None)
            => LET chat_id == session_state[u].active_chat_id[1]
               IN  /\ chat_id \in DOMAIN sessions_dir
                   /\ Len(sessions_dir'[chat_id].json.v) > Len(sessions_dir[chat_id].json.v)
                   /\ IsPrefix(sessions_dir[chat_id].json.v, sessions_dir'[chat_id].json.v)
      ]_vars

\* C7 witness: a file of an earlier session was rewritten by a send of one
\* prompt and holds its two earlier messages followed by two new ones.
C7_Witness ==
    \E f \in DOMAIN sessions_dir :
        /\ sessions_dir[f].mtime = 3
        /\ Len(sessions_dir[f].json.v) = 4
        /\ SubSeq(sessions_dir[f].json.v, 1, 2) = EarlierHistory(<<"h","i">>)

\* the sessions in the order get_chat_sessions gives, without chat_id
ListWithout(dir, chat_id) ==
    SelectSeq(get_chat_sessions(dir), LAMBDA f : f # chat_id)

\* C8: get_chat_sessions lists every session file once, a file written later
\* before a file written earlier; right after a completed send in session S, S
\* is the first of the list and the other sessions are in the order they had.
C8_MostRecentFirst ==
    /\ [](LET chat_sessions == get_chat_sessions(sessions_dir)
          IN  /\ Len(chat_sessions) = Cardinality(DOMAIN sessions_dir)
              /\ \A f \in DOMAIN sessions_dir :
                    \E i \in 1..Len(chat_sessions) : chat_sessions[i] = f
              /\ \A i, j \in 1..Len(chat_sessions) :
                    i < j => sessions_dir[chat_sessions[i]].mtime
                                > sessions_dir[chat_sessions[j]].mtime)
    /\ [][\A u \in DOMAIN session_state :
            CompletedSend(u)
            => LET S == session_state'[u].active_chat_id[1]
               IN  /\ get_chat_sessions(sessions_dir')[1] = S
                   /\ ListWithout(sessions_dir', S) = ListWithout(sessions_dir, S)
         ]_vars

\* C8 witness: a send completed in a.json, the oldest of the two earlier
\* sessions, which is now listed before Chat.json.
C8_Witness ==
    /\ Len(model_calls) = 1
    /\ model_calls[1].response # None
    /\ get_chat_sessions(sessions_dir) = << <<"a">> \o dot_json, S_Chat \o dot_json >>
    /\ session_state[model_calls[1].session].active_chat_id = Some(<<"a">> \o dot_json)

\* the name the loop of lines 221-226 must give for the sanitized topic t when
\* the names of existing are taken: t.json, or else t_i.json for the smallest
\* i >= 1 whose name is free
IsSmallestFree(chat_id, t, existing) ==
    IF t \o dot_json \notin existing THEN chat_id = t \o dot_json
    ELSE \E i \in 1..(Cardinality(existing) + 1) :
            /\ chat_id = t \o <<"_">> \o str(i) \o dot_json
            /\ chat_id \notin existing
            /\ \A j \in 1..(i - 1) : t \o <<"_">> \o str(j) \o dot_json \in existing

\* C9 as stated: the loop yields t.json when that name is free and otherwise
\* t_i.json for the smallest free i >= 1, and any two new sessions that receive
\* the same topic get different identifiers.
C9_AsStated ==
    call.fn = "resolver"
    => /\ \A k \in 1..Len(call.created) :
            IsSmallestFree(call.created[k].chat_id,
                           sanitize_filename(call.created[k].topic),
                           call.created[k].existing)
       /\ \A j, k \in 1..Len(call.created) :
            (j < k /\ call.created[j].topic = call.created[k].topic)
            => call.created[j].chat_id # call.created[k].chat_id

\* C9 as amended: the loop yields t.json when that name is free and otherwise
\* t_i.json for the smallest free i >= 1; the identifier names no existing
\* file, so two new sessions that receive the same topic get different
\* identifiers whenever the first one's file still exists when the second is
\* created.
C9_SmallestFreeSuffix ==
    call.fn = "resolver"
    => /\ \A k \in 1..Len(call.created) :
            /\ IsSmallestFree(call.created[k].chat_id,
                              sanitize_filename(call.created[k].topic),
                              call.created[k].existing)
            /\ call.created[k].chat_id \notin call.created[k].existing
       /\ \A j, k \in 1..Len(call.created) :
            (j < k /\ call.created[j].topic = call.created[k].topic
                   /\ call.created[j].chat_id \in call.created[k].existing)
            => call.created[j].chat_id # call.created[k].chat_id

\* C9 witness: two sessions were created on the topic "a" while a.json and
\* a_2.json existed; the first filled the gap a_1.json and the second, created
\* while the first one's file was there, went past a_2.json to a_3.json.
C9_Witness ==
    /\ call.fn = "resolver"
    /\ Len(call.created) = 2
    /\ call.created[1].topic = <<"a">>
    /\ call.created[2].topic = <<"a">>
    /\ {<<"a">> \o dot_json, <<"a","_","2">> \o dot_json} \subseteq call.created[1].existing
    /\ call.created[1].chat_id = <<"a","_","1">> \o dot_json
    /\ call.created[1].chat_id \in call.created[2].existing
    /\ call.created[2].chat_id = <<"a","_","3">> \o dot_json

\* C10: sanitize_filename never returns the empty string, and a topic in which
\* no character is a letter, a digit, an underscore or a hyphen (empty, all
\* whitespace, all punctuation) gives "new_chat".
C10_NeverEmpty ==
    (call.fn = "sanitize_filename" /\ call.result # None)
    => /\ call.result[1] # <<>>
       /\ (\A i \in 1..Len(call.topic) :
                call.topic[i] \notin Letters \cup Digits \cup {"_", "-"})
            => call.result[1] = <<"n","e","w","_","c","h","a","t">>

\* C10 witness: a topic made of punctuation and whitespace only gave "new_chat".
C10_Witness ==
    /\ call.fn = "sanitize_filename"
    /\ call.result = Some(<<"n","e","w","_","c","h","a","t">>)
    /\ \E i \in 1..Len(call.topic) : call.topic[i] = "."
    /\ \E i \in 1..Len(call.topic) : call.topic[i] = " "
    /\ \A i \in 1..Len(call.topic) : call.topic[i] \in {".", " ", "\t"}

\* the contents of the messages of a sequence
Contents(messages) == {messages[i][K_content] : i \in 1..Len(messages)}

\* the answers of the topic call, as the model can give them
TopicReplies == { <<"a">>, <<"a", " ", "1">> }

\* C11: the topic instruction goes to the model on a copy: the topic call
\* receives the in-memory sequence followed by the instruction, and neither the
\* instruction nor the topic the model answered is a message of an in-memory
\* sequence or of a session file, whether the topic call answered or raised.
C11_TopicCallLeavesMessages ==
    /\ \A u \in DOMAIN session_state :
            Contents(session_state[u].messages)
                \cap ({TopicInstruction} \cup TopicReplies) = {}
    /\ \A f \in DOMAIN sessions_dir :
            Contents(sessions_dir[f].json.v)
                \cap ({TopicInstruction} \cup TopicReplies) = {}
    /\ Len(model_calls) = 2
        => LET messages == session_state[model_calls[1].session].messages
               history == model_calls[2].messages
           IN  /\ Len(history) = Len(messages) + 1
               /\ SubSeq(history, 1, Len(messages)) = messages
               /\ history[Len(history)][K_content] = TopicInstruction
               /\ sessions_dir[session_state[model_calls[1].session].active_chat_id[1]].json.v
                    = messages

\* C11 witness: the topic call of a first exchange answered "a 1", the session
\* is a_1.json and its file holds the two messages of the exchange.
C11_Witness ==
    /\ Len(model_calls) = 2
    /\ model_calls[2].response = Some(<<"a", " ", "1">>)
    /\ Len(session_state[model_calls[1].session].messages) = 2
    /\ Len(sessions_dir[<<"a","_","1">> \o dot_json].json.v) = 2

\* what a UI session with the in-memory sequence messages has before it: the
\* session list, the contents of the session files and its own messages
Observed(dir, messages) ==
    [chat_sessions |-> get_chat_sessions(dir),
     files |-> [f \in DOMAIN dir |-> dir[f].json],
     messages |-> messages]

\* C12 as stated: an operation performed in one UI session changes neither the
\* session list, nor the session files, nor the message sequence of another UI
\* session.
C12_AsStated ==
    [][\E u \in DOMAIN session_state :
        \A v \in DOMAIN session_state \ {u} :
            Observed(sessions_dir', session_state'[v].messages)
                = Observed(sessions_dir, session_state[v].messages)
      ]_vars

\* C12 as amended: st.session_state is not shared: an operation performed in
\* one UI session leaves the message sequence, the active_chat_id, the staged
\* image and the uploader of every other UI session unchanged.  (The sessions
\* directory is shared: the files one UI session writes or deletes are the ones
\* every UI session lists, loads and saves to.)
C12_SessionStateNotShared ==
    [][/\ \E u \in DOMAIN session_state :
            \A v \in DOMAIN session_state \ {u} :
                session_state'[v] = session_state[v] /\ uploader'[v] = uploader[v]
       /\ model_calls' # <<>>
            => \A v \in DOMAIN session_state \ {model_calls'[1].session} :
                session_state'[v] = session_state[v] /\ uploader'[v] = uploader[v]
      ]_vars

\* C12 witness: both UI sessions selected a.json and the second then completed
\* a send in it: the file and the second session hold four messages, the first
\* session still its two.
C12_Witness ==
    /\ DOMAIN session_state = {1, 2}
    /\ session_state[1].active_chat_id = Some(<<"a">> \o dot_json)
    /\ session_state[2].active_chat_id = Some(<<"a">> \o dot_json)
    /\ Len(session_state[1].messages) = 2
    /\ Len(session_state[2].messages) = 4
    /\ model_calls # <<>>
    /\ model_calls[1].session = 2
    /\ Len(sessions_dir[<<"a">> \o dot_json].json.v) = 4

\* a text of the base64 alphabet, padded to a multiple of four characters
IsBase64(text) ==
    /\ Len(text) % 4 = 0
    /\ \A i \in 1..Len(text) :
        text[i] \in LowerLetters \cup UpperLetters \cup Digits \cup {"+", "/", "="}

\* a message as the spec describes it: role user or assistant, a content, and
\* on user messages only an optional list of exactly one base64 blob
IsWellFormedMessage(m) ==
    /\ {K_role, K_content} \subseteq DOMAIN m
    /\ DOMAIN m \subseteq {K_role, K_content, K_images}
    /\ m[K_role] \in {S_user, S_assistant}
    /\ K_images \in DOMAIN m
        => /\ m[K_role] = S_user
           /\ Len(m[K_images]) = 1
           /\ IsBase64(m[K_images][1])

\* C13: every message a send appends (the user message of a send, completed or
\* not, and the reply of a completed one) has role user or assistant; images
\* are on user messages only, as a list of exactly one base64 blob.
C13_MessageShape ==
    [][\A u \in DOMAIN session_state :
        (CompletedSend(u) \/ FailedSend(u))
        => LET before == session_state[u].messages
               after == session_state'[u].messages
           IN  /\ Len(after) > Len(before)
               /\ \A i \in (Len(before) + 1)..Len(after) : IsWellFormedMessage(after[i])
               /\ after[Len(before) + 1][K_role] = S_user
               /\ (K_images \in DOMAIN after[Len(before) + 1])
                    <=> (session_state[u].staged_image # None \/ uploader[u] # None)
               /\ CompletedSend(u)
                    => /\ after[Len(after)][K_role] = S_assistant
                       /\ K_images \notin DOMAIN after[Len(after)]
      ]_vars

\* C13 witness: a send with a staged image completed: the user message carries
\* one blob, the base64 text of the image, and the reply carries none.
C13_Witness ==
    /\ model_calls # <<>>
    /\ model_calls[1].response # None
    /\ LET messages == session_state[model_calls[1].session].messages
       IN  /\ Len(messages) = 2
           /\ K_images \in DOMAIN messages[1]
           /\ messages[1][K_images] = << <<"S","G","k","=">> >>
           /\ K_images \notin DOMAIN messages[2]

\* C14: whenever a session is active (active_chat_id is not None) and no
\* interaction is in progress, the file of that session holds exactly the
\* in-memory message sequence, also after a send whose reply call raised.
C14_FileMatchesMemory ==
    \A u \in DOMAIN session_state :
        session_state[u].active_chat_id # None
        => /\ session_state[u].active_chat_id[1] \in DOMAIN sessions_dir
           /\ sessions_dir[session_state[u].active_chat_id[1]].json
                = [ok |-> TRUE, v |-> session_state[u].messages]

\* C15: in one UI session active_chat_id is None or the name of a file of the
\* sessions directory, and a step that removes the file of the active session
\* leaves active_chat_id None and the in-memory sequence empty.
C15_ActiveFileExists ==
    /\ [](\A u \in DOMAIN session_state :
            session_state[u].active_chat_id # None
            => session_state[u].active_chat_id[1] \in DOMAIN sessions_dir)
    /\ [][\A u \in DOMAIN session_state :
            (/\ session_state[u].active_chat_id # None
             /\ session_state[u].active_chat_id[1] \in DOMAIN sessions_dir
             /\ session_state[u].active_chat_id[1] \notin DOMAIN sessions_dir')
            => /\ session_state'[u].active_chat_id = None
               /\ session_state'[u].messages = <<>>
         ]_vars

\* C15 witness: the session a send had created was deleted: the files are those
\* of the earlier runs again, no session is active and the sequence is empty.
C15_Witness ==
    /\ clock = 3
    /\ DOMAIN sessions_dir = {<<"a">> \o dot_json, S_Chat \o dot_json}
    /\ model_calls = <<>>
    /\ \A u \in DOMAIN session_state :
        /\ session_state[u].active_chat_id = None
        /\ session_state[u].messages = <<>>

\* C16: a step that deletes a session other than the active one removes that
\* file only: every other file keeps its content and time, and active_chat_id,
\* the in-memory sequence and the staged image are what they were.
C16_DeleteOtherSession ==
    [][\A u \in DOMAIN session_state :
        \A session_id \in DOMAIN sessions_dir \ DOMAIN sessions_dir' :
            session_state[u].active_chat_id # Some(session_id)
            => /\ DOMAIN sessions_dir' = DOMAIN sessions_dir \ {session_id}
               /\ \A f \in DOMAIN sessions_dir' : sessions_dir'[f] = sessions_dir[f]
               /\ session_state'[u].active_chat_id = session_state[u].active_chat_id
               /\ session_state'[u].messages = session_state[u].messages
               /\ session_state'[u].staged_image = session_state[u].staged_image
      ]_vars

\* C16 witness: Chat.json was deleted while a.json is the active session with
\* its two messages in memory and an image staged; a.json is as it was.
C16_Witness ==
    /\ clock = 2
    /\ DOMAIN sessions_dir = {<<"a">> \o dot_json}
    /\ sessions_dir[<<"a">> \o dot_json] = EarlierDir[<<"a">> \o dot_json]
    /\ model_calls = <<>>
    /\ \E u \in DOMAIN session_state :
        /\ session_state[u].active_chat_id = Some(<<"a">> \o dot_json)
        /\ session_state[u].messages = EarlierHistory(<<"h","i">>)
        /\ session_state[u].staged_image # None

\* the user message of the send whose calls are calls (the last message the
\* reply call received) carries an image
SentWithImage(calls) ==
    K_images \in DOMAIN calls[1].messages[Len(calls[1].messages)]

\* C17: an uploaded image is attached to at most one user message: when a send
\* has appended a message carrying the staged image and the next interaction is
\* again a send (so nothing was uploaded in between), the message of that send
\* carries no image; this also when the reply call of the first send raised.
C17_ImageAttachedOnce ==
    [][\A u \in DOMAIN session_state :
        (/\ model_calls # <<>>
         /\ model_calls[1].session = u
         /\ SentWithImage(model_calls)
         /\ model_calls' # <<>>
         /\ model_calls'[1].session = u
         /\ Len(session_state'[u].messages) > Len(session_state[u].messages))
        => ~SentWithImage(model_calls')
      ]_vars

====
